---- MODULE Spec2Model ----
(***************************************************************************)
(* Latent-space feature mixing and staged forward passes of the ResNet     *)
(* backbones (ResNet, ResNet_CIFAR, ResNet_Mix, ResNet_Mix_CIFAR,          *)
(* MIMResNet).                                                             *)
(*                                                                         *)
(* Tensors are records [shape, val]: shape is the sequence of dimension    *)
(* sizes, val maps every index tuple (1-based) to a number.  Feature       *)
(* values are integers.  Mask values are fixed-point fractions k/MaskDenom *)
(* held as the integer k, so "1 - mask" is MaskDenom - k and a mixed value *)
(* is held as MaskDenom times the real result.                             *)
(***************************************************************************)
EXTENDS Integers, Sequences, FiniteSets, TLC

VARIABLES mpc, margs, mres,
          fcfg, fpc, fi, fx, fouts, flog, fidx_unshuffle, fret, fvalue,
          spc, sx0, sx, sidx,
          kcfg, kpretrained, ktoken, kgrad, ksync, kcall, korder,
          bargs, bpc, bmod

mvars == <<mpc, margs, mres>>

fvars == <<fcfg, fpc, fi, fx, fouts, flog, fidx_unshuffle, fret, fvalue>>

svars == <<spc, sx0, sx, sidx>>

kvars == <<kcfg, kpretrained, ktoken, kgrad, ksync, kcall, korder>>

bvars == <<bargs, bpc, bmod>>

vars == <<mpc, margs, mres, fcfg, fpc, fi, fx, fouts, flog, fidx_unshuffle, fret, fvalue, spc, sx0, sx, sidx, kcfg, kpretrained, ktoken, kgrad, ksync, kcall, korder, bargs, bpc, bmod>>

\* what a step of the forward pass leaves alone, what a mixing call does,
\* what the shuffle round trip does, what a MIMResNet module does, and what
\* building and training a backbone does
notFwd == <<mvars, svars, kvars, bvars>>

notMix == <<fvars, svars, kvars, bvars>>

notShuf == <<mvars, fvars, kvars, bvars>>

notMask == <<mvars, fvars, svars, bvars>>

notBuild == <<mvars, fvars, svars, kvars>>

\* the parts of the state a specification does not exercise
MixIdle == mpc = "idle" /\ margs = <<>> /\ mres = <<>>

FwdIdle ==
    /\ fcfg = <<>> /\ fpc = "idle" /\ fi = 0 /\ fx = <<>> /\ fouts = <<>>
    /\ flog = <<>> /\ fidx_unshuffle = "unset" /\ fret = "none" /\ fvalue = <<>>

ShufIdle == spc = "idle" /\ sx0 = <<>> /\ sx = <<>> /\ sidx = <<>>

MaskIdle ==
    /\ kcfg = <<>> /\ kpretrained = "idle" /\ ktoken = <<>> /\ kgrad = FALSE
    /\ ksync = TRUE /\ kcall = <<>> /\ korder = <<>>

BuildIdle == bargs = <<>> /\ bpc = "idle" /\ bmod = <<>>

\* ---------------------------------------------------------------- bounds
MaxBatch == 2
MaxSide == 2
MaxVal == 1
MaxShuffleBatch == 3
MaxGamma == 2
MaskDenom == 2

XChannels == 2

\* an optional argument: None, or Some(v)
NoneVal == <<>>

Some(v) == <<v>>

Get(o) == o[1]

Last(q) == q[Len(q)]

\* ------------------------------------------------- tensor library (torch)
RECURSIVE Indices(_)
Indices(shape) ==
    IF shape = <<>> THEN {<<>>}
    ELSE {<<i>> \o r : i \in 1..Head(shape), r \in Indices(Tail(shape))}

Rank(t) == Len(t.shape)

Max2(a, b) == IF a >= b THEN a ELSE b

\* shape s left-padded with 1s to rank n (broadcasting aligns trailing dims)
PadShape(s, n) == [k \in 1..n |-> IF k <= n - Len(s) THEN 1 ELSE s[k - (n - Len(s))]]

BroadcastOK(s1, s2) ==
    LET n == Max2(Len(s1), Len(s2))
        a == PadShape(s1, n)
        b == PadShape(s2, n)
    IN \A k \in 1..n : a[k] = b[k] \/ a[k] = 1 \/ b[k] = 1

BroadcastShape(s1, s2) ==
    LET n == Max2(Len(s1), Len(s2))
        a == PadShape(s1, n)
        b == PadShape(s2, n)
    IN [k \in 1..n |-> IF a[k] = 1 THEN b[k] ELSE a[k]]

\* element of t seen at index i of a broadcast result of rank Len(i)
Elem(t, i) ==
    LET off == Len(i) - Rank(t)
    IN t.val[[k \in 1..Rank(t) |-> IF t.shape[k] = 1 THEN 1 ELSE i[k + off]]]

Err(e) == [err |-> e]

IsErr(r) == "err" \in DOMAIN r

\* a * b with broadcasting; a size mismatch raises RuntimeError
TMul(a, b) ==
    IF ~BroadcastOK(a.shape, b.shape) THEN Err("RuntimeError")
    ELSE LET s == BroadcastShape(a.shape, b.shape)
         IN [shape |-> s, val |-> [i \in Indices(s) |-> Elem(a, i) * Elem(b, i)]]

\* a + b with broadcasting
TAdd(a, b) ==
    IF ~BroadcastOK(a.shape, b.shape) THEN Err("RuntimeError")
    ELSE LET s == BroadcastShape(a.shape, b.shape)
         IN [shape |-> s, val |-> [i \in Indices(s) |-> Elem(a, i) + Elem(b, i)]]

\* 1 - m for a fixed-point mask m
OneMinus(m) == [shape |-> m.shape, val |-> [i \in Indices(m.shape) |-> MaskDenom - m.val[i]]]

\* t[idx] : rows of t (dim 0) picked by the index sequence idx
Index0(t, idx) ==
    IF \E k \in 1..Len(idx) : idx[k] \notin 1..t.shape[1] THEN Err("IndexError")
    ELSE LET s == <<Len(idx)>> \o Tail(t.shape)
         IN [shape |-> s, val |-> [i \in Indices(s) |-> t.val[<<idx[i[1]]>> \o Tail(i)]]]

\* t[lo:hi] in Python terms: rows lo+1..hi of dim 0
Slice0(t, lo, hi) ==
    LET s == <<hi - lo>> \o Tail(t.shape)
    IN [shape |-> s, val |-> [i \in Indices(s) |-> t.val[<<i[1] + lo>> \o Tail(i)]]]

\* t[None, :] : a new leading dimension of size 1
Unsqueeze0(t) ==
    LET s == <<1>> \o t.shape
    IN [shape |-> s, val |-> [i \in Indices(s) |-> t.val[Tail(i)]]]

\* mask[:, c, :, :].unsqueeze(1) for a 4-d mask; c is 0-based as in the code
Channel(m, c) ==
    IF c + 1 > m.shape[2] THEN Err("IndexError")
    ELSE LET s == <<m.shape[1], 1, m.shape[3], m.shape[4]>>
         IN [shape |-> s,
             val |-> [i \in Indices(s) |-> m.val[<<i[1], c + 1, i[3], i[4]>>]]]

\* --------------------------------- distributed shuffle (single worker)
\* grad_batch_shuffle_ddp(x, idx): gather, index by the permutation
BatchShuffle(t, idx) == Index0(t, idx)

\* grad_batch_unshuffle_ddp(x, idx_unshuffle): gather, index by the inverse
BatchUnshuffle(t, idx) == Index0(t, idx)

\* argsort of a permutation: its inverse
ArgSort(p) == [k \in 1..Len(p) |-> CHOOSE j \in 1..Len(p) : p[j] = k]

Perms(n) == {p \in [1..n -> 1..n] : \A a, b \in 1..n : a # b => p[a] # p[b]}

\* ------------------------------------------ ResNet_Mix._feature_mixup
Fail(e) == [ok |-> FALSE, err |-> e.err]

\* `assert mask.dim() == 4 and mask.size(1) <= 2`
MaskAcceptedAnyChannels(mask) == Rank(mask) = 4

MaskAccepted(mask) == Rank(mask) = 4 /\ mask.shape[2] <= 2

\* a two-channel mask renormalised from its first channel
AdjustMaskRenormalised(mask) == <<Channel(mask, 0), OneMinus(Channel(mask, 0))>>

\* a one-channel mask used for both weights
AdjustMaskUncomplemented(mask) ==
    IF mask.shape[2] = 1 THEN <<mask, mask>>
    ELSE <<Channel(mask, 0), Channel(mask, 1)>>

\* the two weight maps made from the mask
AdjustMask(mask) ==
    IF mask.shape[2] = 1 THEN <<mask, OneMinus(mask)>>
    ELSE <<Channel(mask, 0), Channel(mask, 1)>>

\* the primary branch not cut to its first half
PrimaryBranchWhole(x) == x

\* cross-view: x[:N, ...] with N = x.size(0) // 2
PrimaryBranch(x) == Slice0(x, 0, x.shape[1] \div 2)

\* cross-view: x[N:, ...]
SecondBranch(x) == Slice0(x, x.shape[1] \div 2, x.shape[1])

\* the draw ignored: x_ detached in every event
DetachSecondAlways(lt) == TRUE

\* `x_ = x[N:, ...].clone().detach() if detach_p < 0.5 else x[N:, ...]`
DetachSecond(lt) == lt

\* `x = x[:N, ...] if detach_p < 0.5 else x[:N, ...].detach()`
DetachPrimary(lt) == ~lt

\* the branches x and x_; lt is "detach_p < 0.5"
Branches(x, dist_shuffle, idx_shuffle_mix, cross_view, lt) ==
    LET lo == PrimaryBranch(x)
        hi == SecondBranch(x)
    IN IF dist_shuffle
       THEN IF idx_shuffle_mix = NoneVal THEN Err("AssertionError")
            ELSE IF cross_view
                 THEN LET s == BatchShuffle(hi, Get(idx_shuffle_mix))
                      IN IF IsErr(s) THEN s
                         ELSE [x |-> lo, x_ |-> s, xDetached |-> DetachPrimary(lt), x_Detached |-> DetachSecond(lt)]
                 ELSE LET s == BatchShuffle(x, Get(idx_shuffle_mix))
                      IN IF IsErr(s) THEN s
                         ELSE [x |-> x, x_ |-> s, xDetached |-> FALSE, x_Detached |-> FALSE]
       ELSE IF cross_view
            THEN [x |-> lo, x_ |-> hi, xDetached |-> DetachPrimary(lt), x_Detached |-> DetachSecond(lt)]
            ELSE LET s == IF idx_shuffle_mix = NoneVal THEN Unsqueeze0(x)
                          ELSE Index0(x, Get(idx_shuffle_mix))
                 IN IF IsErr(s) THEN s
                    ELSE [x |-> x, x_ |-> s, xDetached |-> FALSE, x_Detached |-> FALSE]

\* the width assertion, the combination and the final re-shuffle
Combine(br, m, BN_shuffle, idx_shuffle_BN) ==
    IF br.x.shape[4] # m[1].shape[4] THEN Fail(Err("AssertionError"))
    ELSE LET a == TMul(br.x, m[1])
             b == TMul(br.x_, m[2])
             mix == IF IsErr(a) THEN a ELSE IF IsErr(b) THEN b ELSE TAdd(a, b)
             out == IF IsErr(mix) \/ ~BN_shuffle THEN mix
                    ELSE BatchShuffle(mix, Get(idx_shuffle_BN))
         IN IF IsErr(out) THEN Fail(out)
            ELSE [ok |-> TRUE, mix |-> out,
                  xDetached |-> br.xDetached, x_Detached |-> br.x_Detached]

\* _feature_mixup(x, mask, ...); lt is the outcome of "detach_p < 0.5"
FeatureMixup(x, mask, dist_shuffle, idx_shuffle_mix, cross_view, BN_shuffle, idx_shuffle_BN, idx_unshuffle_BN, lt) ==
    IF ~MaskAccepted(mask) THEN Fail(Err("AssertionError"))
    ELSE LET m == AdjustMask(mask)
         IN IF IsErr(m[1]) THEN Fail(m[1])
            ELSE IF IsErr(m[2]) THEN Fail(m[2])
            ELSE IF BN_shuffle /\ (idx_unshuffle_BN = NoneVal \/ idx_shuffle_BN = NoneVal)
                 THEN Fail(Err("AssertionError"))
            ELSE LET x1 == IF BN_shuffle THEN BatchUnshuffle(x, Get(idx_unshuffle_BN)) ELSE x
                 IN IF IsErr(x1) THEN Fail(x1)
                    ELSE LET br == Branches(x1, dist_shuffle, idx_shuffle_mix, cross_view, lt)
                         IN IF IsErr(br) THEN Fail(br)
                            ELSE Combine(br, m, BN_shuffle, idx_shuffle_BN)

\* ------------------------------------------------ inputs of a mixing call
\* the largest channel count the mask assertion admits
MaskChannelLimit == 2

\* a feature map: sample b sits at level base + b - 1, every position of a
\* sample has its own code, so all entries differ
PosCode(i) == ((i[2] - 1) * (MaxSide + 1) + (i[3] - 1)) * (MaxSide + 1) + i[4]

PosSpan == (XChannels + 1) * (MaxSide + 1) * (MaxSide + 1)

XTensor(B, H, W, base) ==
    LET s == <<B, XChannels, H, W>>
    IN [shape |-> s,
        val |-> [i \in Indices(s) |-> (base + i[1] - 1) * PosSpan + PosCode(i)]]

\* a mask: channel ch holds chv[ch], mirrored on odd positions when checker
MaskTensor(s, chv, checker) ==
    [shape |-> s,
     val |-> [i \in Indices(s) |->
                LET v == chv[i[2]]
                    odd == (i[1] + i[3] + i[4]) % 2 = 1
                IN IF checker /\ odd THEN MaskDenom - v ELSE v]]

\* a mask that is not 4-dimensional, all entries v
FlatMask(s, v) == [shape |-> s, val |-> [i \in Indices(s) |-> v]]

Identity(n) == [k \in 1..n |-> k]

Reversed(n) == [k \in 1..n |-> n + 1 - k]

\* arguments the code never reads in a mode are held at their defaults
Canonical(c) ==
    /\ (~c.BN_shuffle => c.idx_shuffle_BN = NoneVal /\ c.idx_unshuffle_BN = NoneVal)
    /\ (c.cross_view /\ ~c.dist_shuffle => c.idx_shuffle_mix = NoneVal)
    /\ (~c.cross_view => ~c.lt)

PermOpts(n) == {Some(p) : p \in Perms(n)}

\* keyword arguments for a B-row x in which every index the mode reads is a
\* permutation of the rows it is applied to; with BN_shuffle outside
\* cross-view mode the mixing permutation is the reversal
ValueConfigs(B) ==
    LET N == B \div 2
    IN {c \in [dist_shuffle : BOOLEAN, cross_view : BOOLEAN, BN_shuffle : BOOLEAN,
               idx_shuffle_mix : {NoneVal} \cup PermOpts(B) \cup PermOpts(B - N),
               idx_shuffle_BN : {NoneVal} \cup PermOpts(B) \cup PermOpts(N),
               idx_unshuffle_BN : {NoneVal} \cup PermOpts(B), lt : BOOLEAN] :
          /\ Canonical(c)
          /\ (c.BN_shuffle => c.idx_unshuffle_BN # NoneVal
                               /\ c.idx_shuffle_BN \in PermOpts(IF c.cross_view THEN N ELSE B))
          /\ (~c.cross_view => c.idx_shuffle_mix \in PermOpts(B))
          /\ (c.cross_view /\ c.dist_shuffle => c.idx_shuffle_mix \in PermOpts(B - N))
          /\ (c.BN_shuffle /\ ~c.cross_view => c.idx_shuffle_mix = Some(Reversed(B)))}

\* masks with an admitted channel count and every value pattern
ValueMasks(B, H, W) ==
    {MaskTensor(<<B, C, H, W>>, chv, ck) :
        C \in 1..MaskChannelLimit,
        chv \in [1..MaskChannelLimit -> 0..MaskDenom], ck \in BOOLEAN}

\* the rows of the branch the mask multiplies
BranchRows(B, cross_view) == IF cross_view THEN B \div 2 ELSE B

\* calls with every value pattern; the mask has the shape of the branch it
\* multiplies
ValueCallsOf(B, H) ==
    UNION {[x : {XTensor(B, H, MaxSide, base) : base \in {0, MaxVal}},
            mask : ValueMasks(BranchRows(B, c.cross_view), H, MaxSide),
            cfg : {c}] : c \in ValueConfigs(B)}

ValueCalls == UNION {ValueCallsOf(B, H) : B \in 1..MaxBatch, H \in 1..MaxSide}

\* no index, a one-row index, or a full-length index
LengthOpts == {NoneVal, Some(Identity(1)), Some(Identity(MaxBatch))}

ShapeConfigs ==
    {c \in [dist_shuffle : BOOLEAN, cross_view : BOOLEAN, BN_shuffle : BOOLEAN,
            idx_shuffle_mix : LengthOpts, idx_shuffle_BN : LengthOpts,
            idx_unshuffle_BN : LengthOpts, lt : {FALSE}] : Canonical(c)}

UnitMask(s) == MaskTensor(s, [k \in 1..(MaskChannelLimit + 1) |-> 1], FALSE)

\* masks of every admitted shape, and masks the first assertion is there for:
\* no channel, one channel too many, not 4-dimensional
ShapeMasks ==
    {UnitMask(<<B, C, H, W>>) :
        B \in 1..MaxBatch, C \in 1..MaskChannelLimit, H \in 1..MaxSide, W \in 1..MaxSide}
    \cup {UnitMask(<<B, C, H, MaxSide>>) :
        B \in 1..MaxBatch, C \in {0, MaskChannelLimit + 1}, H \in 1..MaxSide}
    \cup {FlatMask(<<1, 1, 1>>, 1), FlatMask(<<1, 1, 1, 1, 1>>, 1)}

\* calls with every combination of mask shape and arguments
ShapeCalls ==
    [x : {XTensor(B, H, MaxSide, 0) : B \in 1..MaxBatch, H \in {1, MaxSide}},
     mask : ShapeMasks, cfg : ShapeConfigs]

MixInit ==
    /\ FwdIdle /\ ShufIdle /\ MaskIdle /\ BuildIdle
    /\ mpc = "call"
    /\ mres = [ok |-> FALSE, err |-> "pending"]
    /\ margs \in ValueCalls \cup ShapeCalls

\* one call of _feature_mixup
CallFeatureMixup ==
    /\ mpc = "call"
    /\ mpc' = "done"
    /\ mres' = FeatureMixup(margs.x, margs.mask, margs.cfg.dist_shuffle,
                            margs.cfg.idx_shuffle_mix, margs.cfg.cross_view,
                            margs.cfg.BN_shuffle, margs.cfg.idx_shuffle_BN,
                            margs.cfg.idx_unshuffle_BN, margs.cfg.lt)
    /\ UNCHANGED margs
    /\ UNCHANGED notMix

\* =====================================================================
\* Staged forward passes.  A feature map is held as its provenance: the
\* sequence of operations applied to the raw input, in order.
\* =====================================================================
NumStages == 4

\* res_layers: the stage names, layer1 .. layer4
LayerName(i) == <<"layer1", "layer2", "layer3", "layer4", "layer5">>[i]

MixClasses == {"ResNet_Mix", "ResNet_Mix_CIFAR"}

PlainClasses == {"ResNet", "ResNet_CIFAR"}

MaskModes == {"None", "randn", "zero", "mean", "instance_mean", "learnable"}

\* mix_args of a forward call: absent, or the layer and the shuffle_BN request
MixArgs ==
    {[given |-> FALSE, layer |-> 0 - 1, BN_shuffle |-> FALSE, has_idx_shuffle_BN |-> FALSE]}
    \cup {a \in [given : {TRUE}, layer : 0..NumStages, BN_shuffle : BOOLEAN,
                  has_idx_shuffle_BN : BOOLEAN] :
              ~a.BN_shuffle => ~a.has_idx_shuffle_BN}

NoMix == [given |-> FALSE, layer |-> 0 - 1, BN_shuffle |-> FALSE, has_idx_shuffle_BN |-> FALSE]

OutIndexSets(lowest) == (SUBSET (lowest..(NumStages - 1))) \ {{}}

\* a constructed backbone together with the arguments of one forward call
FwdConfigs ==
    {[cls |-> c, out_indices |-> o, mix |-> NoMix,
      mask_layer |-> 0, mask_mode |-> "None", has_mask |-> FALSE] :
        c \in PlainClasses, o \in OutIndexSets(0)}
    \cup {[cls |-> c, out_indices |-> o, mix |-> m,
           mask_layer |-> 0, mask_mode |-> "None", has_mask |-> FALSE] :
        c \in MixClasses, o \in OutIndexSets(0), m \in MixArgs}
    \cup {[cls |-> "MIMResNet", out_indices |-> o, mix |-> NoMix,
           mask_layer |-> l, mask_mode |-> md, has_mask |-> hm] :
        o \in OutIndexSets(0 - 1), l \in 0..3, md \in MaskModes, hm \in BOOLEAN}

Ev(name) == [ev |-> name, in |-> fx]

FwdInit ==
    /\ MixIdle /\ ShufIdle /\ MaskIdle /\ BuildIdle
    /\ fcfg \in FwdConfigs
    /\ fpc = IF fcfg.cls \in MixClasses THEN "start" ELSE "stem"
    /\ fi = 0
    /\ fx = <<"input">>
    /\ fouts = <<>>
    /\ flog = <<>>
    /\ fidx_unshuffle = "unset"
    /\ fret = "none"
    /\ fvalue = NoneVal

mix_layer == IF fcfg.mix.given THEN fcfg.mix.layer ELSE 0 - 1

Log(name) == flog' = Append(flog, Ev(name))

\* `if mix_layer == 0`
InputMixupDue(layer) == layer = 0

\* the stage test without its + 1, and as a threshold
StageMixupDueOffByOne(i, layer) == i = layer

StageMixupDueFrom(i, layer) == i + 1 >= layer

\* `if i+1 == mix_layer`
StageMixupDue(i, layer) == i + 1 = layer

\* the mask test shifted by one stage
MaskDueShifted(i, layer) == layer = i + 1

\* `if self.mask_layer == i`
MaskDue(i, layer) == layer = i

\* `if len(self.out_indices) == 1: return outs`
EarlyReturn(out_indices) == Cardinality(out_indices) = 1

\* `return outs`: the list the feature maps were appended to, as it is
ForwardReturn(outs) == [kind |-> "list", items |-> outs]

\* the re-shuffle placed before the combination
AfterMixStepReshuffleFirst(step) ==
    CASE step = "mix_unshuffle" -> "mix_derive"
      [] step = "mix_derive" -> "mix_reshuffle"
      [] step = "mix_reshuffle" -> "mix_combine"
      [] step = "mix_combine" -> "mix_return"

\* the statements of _feature_mixup in program order
AfterMixStep(step) ==
    CASE step = "mix_unshuffle" -> "mix_derive"
      [] step = "mix_derive" -> "mix_combine"
      [] step = "mix_combine" -> "mix_reshuffle"
      [] step = "mix_reshuffle" -> "mix_return"

\* ResNet_Mix.forward, the mix_args preamble: the input shuffle for shuffle_BN
FwdStart ==
    /\ fpc = "start"
    /\ IF fcfg.mix.given /\ fcfg.mix.BN_shuffle
       THEN /\ fx' = Append(fx, "shuffle")
            /\ fidx_unshuffle' = "recorded"
            /\ Log("shuffle_input")
       ELSE /\ fidx_unshuffle' = IF fcfg.mix.given THEN "None" ELSE "unset"
            /\ UNCHANGED <<fx, flog>>
    /\ fpc' = "input_mix"
    /\ UNCHANGED <<fcfg, fvalue, fi, fouts, fret>>
    /\ UNCHANGED notFwd

\* `if mix_layer == 0: x = self._feature_mixup(...)`
InputMixup ==
    /\ fpc = "input_mix"
    /\ IF InputMixupDue(mix_layer)
       THEN fpc' = "mix_unshuffle" /\ fret' = "stem" /\ Log("_feature_mixup")
       ELSE fpc' = "stem" /\ UNCHANGED <<fret, flog>>
    /\ UNCHANGED <<fcfg, fvalue, fi, fx, fouts, fidx_unshuffle>>
    /\ UNCHANGED notFwd

\* the stem (conv1, norm1, relu and, outside CIFAR, maxpool)
Stem ==
    /\ fpc = "stem"
    /\ fx' = Append(fx, "stem")
    /\ Log("stem")
    /\ fouts' = IF fcfg.cls = "MIMResNet" /\ (0 - 1) \in fcfg.out_indices
                THEN Append(fouts, fx') ELSE fouts
    /\ fi' = 0
    /\ fpc' = "loop"
    /\ UNCHANGED <<fcfg, fvalue, fidx_unshuffle, fret>>
    /\ UNCHANGED notFwd

\* `for i, layer_name in enumerate(self.res_layers)`
LoopHead ==
    /\ fpc = "loop"
    /\ fpc' = IF fi >= NumStages THEN "returned"
              ELSE IF fcfg.cls = "MIMResNet" /\ MaskDue(fi, fcfg.mask_layer) THEN "mask"
              ELSE "stage"
    /\ fvalue' = IF fi >= NumStages THEN Some(ForwardReturn(fouts)) ELSE fvalue
    /\ UNCHANGED <<fcfg, fi, fx, fouts, flog, fidx_unshuffle, fret>>
    /\ UNCHANGED notFwd

\* MIMResNet: x = self.forward_mask(x, mask)
MaskInject ==
    /\ fpc = "mask"
    /\ Log("forward_mask")
    /\ IF fcfg.mask_mode = "None" THEN fpc' = "stage" /\ UNCHANGED fx
       ELSE IF ~fcfg.has_mask THEN fpc' = "error" /\ UNCHANGED fx
       ELSE fpc' = "stage" /\ fx' = Append(fx, "mask_token")
    /\ UNCHANGED <<fcfg, fvalue, fi, fouts, fidx_unshuffle, fret>>
    /\ UNCHANGED notFwd

\* x = res_layer(x)
Stage ==
    /\ fpc = "stage"
    /\ fx' = Append(fx, LayerName(fi + 1))
    /\ Log(LayerName(fi + 1))
    /\ fpc' = "collect"
    /\ UNCHANGED <<fcfg, fvalue, fi, fouts, fidx_unshuffle, fret>>
    /\ UNCHANGED notFwd

\* `if i in self.out_indices: outs.append(x)` and the early return
Collect ==
    /\ fpc = "collect"
    /\ fouts' = IF fi \in fcfg.out_indices THEN Append(fouts, fx) ELSE fouts
    /\ IF fi \in fcfg.out_indices /\ EarlyReturn(fcfg.out_indices)
       THEN fpc' = "returned" /\ fvalue' = Some(ForwardReturn(fouts')) /\ UNCHANGED fi
       ELSE IF fcfg.cls \in MixClasses
            THEN fpc' = "stage_mix" /\ UNCHANGED <<fi, fvalue>>
            ELSE fpc' = "loop" /\ fi' = fi + 1 /\ UNCHANGED fvalue
    /\ UNCHANGED <<fcfg, fx, flog, fidx_unshuffle, fret>>
    /\ UNCHANGED notFwd

\* `if i+1 == mix_layer: x = self._feature_mixup(...)`
StageMixup ==
    /\ fpc = "stage_mix"
    /\ IF StageMixupDue(fi, mix_layer)
       THEN fpc' = "mix_unshuffle" /\ fret' = "loop" /\ Log("_feature_mixup")
            /\ UNCHANGED fi
       ELSE fpc' = "loop" /\ fi' = fi + 1 /\ UNCHANGED <<fret, flog>>
    /\ UNCHANGED <<fcfg, fvalue, fx, fouts, fidx_unshuffle>>
    /\ UNCHANGED notFwd

\* _feature_mixup: undo shuffle_BN
MixUnshuffle ==
    /\ fpc = "mix_unshuffle"
    /\ IF ~fcfg.mix.BN_shuffle
       THEN fpc' = AfterMixStep("mix_unshuffle") /\ UNCHANGED <<fx, flog>>
       ELSE IF fidx_unshuffle # "recorded" \/ ~fcfg.mix.has_idx_shuffle_BN
            THEN fpc' = "error" /\ UNCHANGED <<fx, flog>>
            ELSE /\ fpc' = AfterMixStep("mix_unshuffle")
                 /\ fx' = Append(fx, "unshuffle")
                 /\ Log("unshuffle")
    /\ UNCHANGED <<fcfg, fvalue, fi, fouts, fidx_unshuffle, fret>>
    /\ UNCHANGED notFwd

\* _feature_mixup: x_ is derived from x
MixDerive ==
    /\ fpc = "mix_derive"
    /\ Log("derive_x_")
    /\ fpc' = AfterMixStep("mix_derive")
    /\ UNCHANGED <<fcfg, fvalue, fi, fx, fouts, fidx_unshuffle, fret>>
    /\ UNCHANGED notFwd

\* _feature_mixup: mix = x * mask[0] + x_ * mask[1]
MixCombine ==
    /\ fpc = "mix_combine"
    /\ fx' = Append(fx, "mix")
    /\ Log("combine")
    /\ fpc' = AfterMixStep("mix_combine")
    /\ UNCHANGED <<fcfg, fvalue, fi, fouts, fidx_unshuffle, fret>>
    /\ UNCHANGED notFwd

\* _feature_mixup: redo shuffle_BN
MixReshuffle ==
    /\ fpc = "mix_reshuffle"
    /\ IF fcfg.mix.BN_shuffle
       THEN fx' = Append(fx, "reshuffle") /\ Log("reshuffle")
       ELSE UNCHANGED <<fx, flog>>
    /\ fpc' = AfterMixStep("mix_reshuffle")
    /\ UNCHANGED <<fcfg, fvalue, fi, fouts, fidx_unshuffle, fret>>
    /\ UNCHANGED notFwd

\* _feature_mixup returns mix to forward
MixReturn ==
    /\ fpc = "mix_return"
    /\ IF fret = "stem" THEN fpc' = "stem" /\ UNCHANGED fi
       ELSE fpc' = "loop" /\ fi' = fi + 1
    /\ fret' = "none"
    /\ UNCHANGED <<fcfg, fvalue, fx, fouts, flog, fidx_unshuffle>>
    /\ UNCHANGED notFwd

FwdNext ==
    \/ FwdStart \/ InputMixup \/ Stem \/ LoopHead \/ MaskInject \/ Stage
    \/ Collect \/ StageMixup \/ MixUnshuffle \/ MixDerive \/ MixCombine
    \/ MixReshuffle \/ MixReturn

\* one forward pass of a backbone
SpecFwd == FwdInit /\ [][FwdNext]_vars

\* one call of _feature_mixup on concrete tensors
SpecMix == MixInit /\ [][CallFeatureMixup]_vars

\* =====================================================================
\* The shuffle_BN round trip at mix layer 0: forward shuffles the input
\* batch, _feature_mixup undoes it with the index forward recorded.
\* =====================================================================
\* grad_batch_shuffle_ddp(x) with the permutation p it draws: the shuffled
\* batch, the permutation and its inverse
GradBatchShuffle(x, p) ==
    [x |-> BatchShuffle(x, p), idx_shuffle |-> p, idx_unshuffle |-> ArgSort(p)]

\* forward keeping the second value of the triple
RecordedIndexShuffle(r) == r.idx_shuffle

\* `x, _, idx_unshuffle = ...`: forward keeps the first and the third value
RecordedIndex(r) == r.idx_unshuffle

ShufInputs ==
    {XTensor(B, H, W, base) :
        B \in 1..MaxShuffleBatch, H \in 1..MaxSide, W \in 1..MaxSide, base \in {0, MaxVal}}

ShufInit ==
    /\ MixIdle /\ FwdIdle /\ MaskIdle /\ BuildIdle
    /\ spc = "start"
    /\ sx0 \in ShufInputs
    /\ sx = sx0
    /\ sidx = NoneVal

\* forward: `x, _, idx_unshuffle = grad_batch_shuffle_ddp(x)`
ForwardShuffle ==
    /\ spc = "start"
    /\ \E p \in Perms(sx.shape[1]) :
          LET r == GradBatchShuffle(sx, p)
          IN sx' = r.x /\ sidx' = Some(RecordedIndex(r))
    /\ spc' = "shuffled"
    /\ UNCHANGED sx0
    /\ UNCHANGED notShuf

\* _feature_mixup: `x = grad_batch_unshuffle_ddp(x, idx_unshuffle_BN)`
MixupUnshuffle ==
    /\ spc = "shuffled"
    /\ sx' = BatchUnshuffle(sx, Get(sidx))
    /\ spc' = "unshuffled"
    /\ UNCHANGED <<sx0, sidx>>
    /\ UNCHANGED notShuf

ShufNext == ForwardShuffle \/ MixupUnshuffle

\* the input shuffle of forward followed by the unshuffle of _feature_mixup
SpecShuf == ShufInit /\ [][ShufNext]_vars

\* =====================================================================
\* MIMResNet: the mask token and forward_mask on concrete tensors.
\* Feature values and tokens are held in units of 1/MeanScale, so that the
\* mean over any batch and any spatial extent within the bounds is exact.
\* Masks are binary, gamma is an integer.
\* =====================================================================
RECURSIVE Factorial(_)
Factorial(n) == IF n <= 1 THEN 1 ELSE n * Factorial(n - 1)

MeanScale == Factorial(MaxBatch) * Factorial(MaxSide) * Factorial(MaxSide)

RECURSIVE Product(_)
Product(s) == IF s = <<>> THEN 1 ELSE Head(s) * Product(Tail(s))

RECURSIVE SumOver(_, _)
SumOver(f, D) ==
    IF D = {} THEN 0
    ELSE LET j == CHOOSE k \in D : TRUE
         IN f[j] + SumOver(f, D \ {j})

\* propagating forms of * and +
TMulE(a, b) == IF IsErr(a) THEN a ELSE IF IsErr(b) THEN b ELSE TMul(a, b)

TAddE(a, b) == IF IsErr(a) THEN a ELSE IF IsErr(b) THEN b ELSE TAdd(a, b)

\* t.mean(dim=dims, keepdim=True); dims are 1-based here
TMean(t, dims) ==
    LET s == [k \in 1..Rank(t) |-> IF k \in dims THEN 1 ELSE t.shape[k]]
        cell(i) == {j \in Indices(t.shape) : \A k \in 1..Rank(t) : k \notin dims => j[k] = i[k]}
    IN [shape |-> s,
        val |-> [i \in Indices(s) |-> SumOver(t.val, cell(i)) \div Cardinality(cell(i))]]

\* t.expand(shape): size-1 dimensions repeated
Expand(t, shape) ==
    IF \E k \in 1..Len(shape) : t.shape[k] # 1 /\ t.shape[k] # shape[k] THEN Err("RuntimeError")
    ELSE [shape |-> shape, val |-> [i \in Indices(shape) |-> Elem(t, i)]]

\* row-major offset of index i in a tensor of shape s, and back
RECURSIVE Offset(_, _)
Offset(i, s) ==
    IF i = <<>> THEN 0
    ELSE (Head(i) - 1) * Product(Tail(s)) + Offset(Tail(i), Tail(s))

RECURSIVE AtOffset(_, _)
AtOffset(k, s) ==
    IF s = <<>> THEN <<>>
    ELSE <<(k \div Product(Tail(s))) + 1>> \o AtOffset(k % Product(Tail(s)), Tail(s))

\* t.view(shape): the same elements in row-major order
View(t, shape) ==
    IF Product(t.shape) # Product(shape) THEN Err("RuntimeError")
    ELSE [shape |-> shape,
          val |-> [i \in Indices(shape) |-> t.val[AtOffset(Offset(i, shape), t.shape)]]]

\* 1. - mask for a binary mask
Complement(m) == [shape |-> m.shape, val |-> [i \in Indices(m.shape) |-> 1 - m.val[i]]]

Zeros(s) == [shape |-> s, val |-> [i \in Indices(s) |-> 0]]

Ones(s) == [shape |-> s, val |-> [i \in Indices(s) |-> 1]]

ScaleUp(t, k) == [shape |-> t.shape, val |-> [i \in Indices(t.shape) |-> k * t.val[i]]]

\* ----------------------------------------------- MIMResNet.__init__
\* the mask token and gamma: (1, mask_dims, 1, 1), mask_dims being the
\* channel count of the feature map at the mask layer
TokenShape == <<1, XChannels, 1, 1>>

HasTokenParameter(mode) == mode \notin {"None", "instance_mean"}

MaskCfgs ==
    {c \in [mask_mode : MaskModes, replace : BOOLEAN, detach : BOOLEAN,
            mask_init : {0, MaxGamma}] :
        c.replace => (~c.detach /\ c.mask_init = 0)}

\* self.mask_token after construction: nn.Parameter(torch.zeros(...))
ConstructedToken(cfg) ==
    IF HasTokenParameter(cfg.mask_mode) THEN Some(Zeros(TokenShape)) ELSE NoneVal

\* self.mask_gamma: mask_init * ones when mask_init > 0 and not replace
MaskGamma(cfg) ==
    IF cfg.mask_init > 0 /\ ~cfg.replace
    THEN Some(ScaleUp(Ones(TokenShape), cfg.mask_init)) ELSE NoneVal

\* ----------------------------------------------- MIMResNet.init_weights
\* a token value that no feature value equals: channel c holds -c
TokenPattern == [shape |-> TokenShape, val |-> [i \in Indices(TokenShape) |-> 0 - i[2] * MeanScale]]

\* loading a checkpoint copies the stored parameter values
LoadCheckpoint(token) == IF token = NoneVal THEN NoneVal ELSE Some(TokenPattern)

\* trunc_normal_ draws the token unless the mode is zero
InitWeightsToken(mode, token, pretrained) ==
    IF pretrained # "None" THEN LoadCheckpoint(token)
    ELSE IF HasTokenParameter(mode) /\ mode # "zero" THEN Some(TokenPattern)
    ELSE token

\* `if self.mask_mode != 'learnable': self.mask_token.requires_grad = False`
InitWeightsGrad(mode, grad, pretrained) ==
    IF pretrained = "None" /\ HasTokenParameter(mode) /\ mode # "learnable" THEN FALSE
    ELSE grad

\* ----------------------------------------------- MIMResNet.forward_mask
\* the spatial mean taken over the batch as well
InstanceMeanOverBatch(x) == TMean(x, {1, 3, 4})

\* x.mean(dim=[2, 3], keepdim=True)
InstanceMean(x) == TMean(x, {3, 4})

\* the channel mean of the first sample only
ChannelMeanFirstSample(x) == TMean(Slice0(x, 0, 1), {1, 3, 4})

\* x.mean(dim=[0, 2, 3], keepdim=True)
ChannelMean(x) == TMean(x, {1, 3, 4})

\* a missing mask read as all zeros
ViewMaskDefaultZeros(mask, x) ==
    IF mask = NoneVal THEN Zeros(<<x.shape[1], 1, x.shape[3], x.shape[4]>>)
    ELSE View(Get(mask), <<x.shape[1], 1, x.shape[3], x.shape[4]>>)

\* `assert mask is not None` and mask.view(B, 1, H, W)
ViewMask(mask, x) ==
    IF mask = NoneVal THEN Err("AssertionError")
    ELSE View(Get(mask), <<x.shape[1], 1, x.shape[3], x.shape[4]>>)

\* the token added without clearing the masked positions
ReplaceCombineAdditive(x, m, tok) == TAddE(x, TMulE(tok, m))

\* x * (1. - mask) + mask_token * mask
ReplaceCombine(x, m, tok) == TAddE(TMulE(x, Complement(m)), TMulE(tok, m))

\* x * (1. - mask) + x.clone().detach() * mask: the detached copy has x's values
DetachBlend(x, m) == TAddE(TMulE(x, Complement(m)), TMulE(x, m))

\* gamma applied to the whole feature map
GammaBlendWhole(x, m, g) == TMulE(x, g)

\* x * (1. - mask) + (x * mask) * self.mask_gamma
GammaBlend(x, m, g) == TAddE(TMulE(x, Complement(m)), TMulE(TMulE(x, m), g))

\* x + mask_token * mask
Residual(x, m, tok) == TAddE(x, TMulE(tok, m))

\* lines 80-90: the assertion, the view and the combination
ApplyMask(cfg, x, mask, tok) ==
    LET m == ViewMask(mask, x)
        gamma == MaskGamma(cfg)
    IN IF IsErr(m) THEN m
       ELSE IF cfg.replace THEN ReplaceCombine(x, m, tok)
       ELSE LET x1 == IF cfg.detach THEN DetachBlend(x, m) ELSE x
                x2 == IF gamma # NoneVal THEN GammaBlend(x1, m, Get(gamma)) ELSE x1
            IN Residual(x2, m, tok)

\* `if self.mask_mode is None: return x`
ReturnsEarlyNever(mode) == FALSE

ReturnsEarly(mode) == mode = "None"

\* mask_token for this call: line 75, or line 79
ReadMaskToken(mode, token, x) ==
    IF mode = "instance_mean" THEN Expand(InstanceMean(x), x.shape)
    ELSE IF token = NoneVal THEN Err("AttributeError")
    ELSE Expand(Get(token), x.shape)

\* forward_mask writes module state in mean mode only
WritesToken(mode) == mode = "mean"

\* the token read before it is written
NextMaskStepReadFirst(step, mode) ==
    CASE step = "enter" -> "read"
      [] step = "read" -> IF WritesToken(mode) THEN "write" ELSE "apply"
      [] step = "write" -> "apply"

\* the statements of forward_mask in program order: line 78 (mean mode only),
\* line 75 or 79, lines 80-90
NextMaskStep(step, mode) ==
    CASE step = "enter" -> IF WritesToken(mode) THEN "write" ELSE "read"
      [] step = "write" -> "read"
      [] step = "read" -> "apply"

\* ------------------------------------------------ inputs of forward_mask
\* the passes that may run on one module instance
Procs == {1, 2}

\* the feature maps of pass t, in units of 1/MeanScale; a later pass has
\* its own values and full height
MaskX(t) ==
    {ScaleUp(XTensor(B, H, MaxSide, t - 1), MeanScale) :
        B \in 1..MaxBatch, H \in IF t = 1 THEN {1, MaxSide} ELSE {MaxSide}}

\* a binary mask of shape (B, H, W): 1 where the position code is odd
CheckerMask(s) == [shape |-> s, val |-> [i \in Indices(s) |-> (i[1] + i[2] + i[3]) % 2]]

\* no mask, nothing masked, everything masked, every other position masked;
\* a later pass has no mask or the last of these
MaskOpts(t, x) ==
    LET s == <<x.shape[1], x.shape[3], x.shape[4]>>
    IN IF t = 1 THEN {NoneVal, Some(Zeros(s)), Some(Ones(s)), Some(CheckerMask(s))}
       ELSE {NoneVal, Some(CheckerMask(s))}

IdleCall == [pc |-> "idle", x |-> <<>>, mask |-> <<>>, stored |-> <<>>, tok |-> <<>>, out |-> <<>>]

Finished(t) == kcall[t].pc \in {"done", "error"}

\* a constructed module; a second pass is explored in the mode in which a
\* call writes module state, unsynchronised passes with replace
MaskInit ==
    /\ MixIdle /\ FwdIdle /\ ShufIdle /\ BuildIdle
    /\ kcfg \in MaskCfgs
    /\ kpretrained = "unset"
    /\ ktoken = ConstructedToken(kcfg)
    /\ kgrad = HasTokenParameter(kcfg.mask_mode)
    /\ ksync \in BOOLEAN
    /\ (~ksync => WritesToken(kcfg.mask_mode) /\ kcfg.replace)
    /\ kcall = [t \in Procs |-> IdleCall]
    /\ korder = <<>>

\* init_weights(pretrained)
InitWeights ==
    /\ kpretrained = "unset"
    /\ \E pretrained \in {"None", "checkpoint"} :
          /\ kpretrained' = pretrained
          /\ ktoken' = InitWeightsToken(kcfg.mask_mode, ktoken, pretrained)
          /\ kgrad' = InitWeightsGrad(kcfg.mask_mode, kgrad, pretrained)
    /\ UNCHANGED <<kcfg, ksync, kcall, korder>>
    /\ UNCHANGED notMask

\* forward_mask(x, mask) is entered by pass t (lines 71-73); passes are
\* numbered in order of entry, and synchronised passes do not overlap
MaskEnter(t) ==
    /\ kpretrained \notin {"unset", "idle"}
    /\ kcall[t].pc = "idle"
    /\ \A u \in Procs : u < t => kcall[u].pc # "idle" /\ WritesToken(kcfg.mask_mode)
    /\ ksync => \A u \in Procs \ {t} : kcall[u].pc = "idle" \/ Finished(u)
    /\ \E x \in MaskX(t) :
          \E mask \in MaskOpts(t, x) :
             kcall' = [kcall EXCEPT ![t] =
                         IF ReturnsEarly(kcfg.mask_mode)
                         THEN [pc |-> "done", x |-> x, mask |-> mask, stored |-> ktoken,
                               tok |-> <<>>, out |-> x]
                         ELSE [pc |-> NextMaskStep("enter", kcfg.mask_mode),
                               x |-> x, mask |-> mask, stored |-> ktoken,
                               tok |-> <<>>, out |-> <<>>]]
    /\ korder' = Append(korder, t)
    /\ UNCHANGED <<kcfg, kpretrained, ktoken, kgrad, ksync>>
    /\ UNCHANGED notMask

\* `self.mask_token.data = x.mean(dim=[0, 2, 3], keepdim=True)`
MaskWriteToken(t) ==
    /\ kcall[t].pc = "write"
    /\ ktoken' = Some(ChannelMean(kcall[t].x))
    /\ kcall' = [kcall EXCEPT ![t].pc = NextMaskStep("write", kcfg.mask_mode)]
    /\ UNCHANGED <<kcfg, kpretrained, kgrad, ksync, korder>>
    /\ UNCHANGED notMask

\* `mask_token = ... .expand(B, -1, H, W)`
MaskReadToken(t) ==
    /\ kcall[t].pc = "read"
    /\ LET tok == ReadMaskToken(kcfg.mask_mode, ktoken, kcall[t].x)
       IN kcall' = [kcall EXCEPT ![t] =
                      IF IsErr(tok) THEN [@ EXCEPT !.pc = "error", !.out = tok]
                      ELSE [@ EXCEPT !.pc = NextMaskStep("read", kcfg.mask_mode), !.tok = tok]]
    /\ UNCHANGED <<kcfg, kpretrained, ktoken, kgrad, ksync, korder>>
    /\ UNCHANGED notMask

\* the assertion on the mask, the view and the combination; return x
MaskApply(t) ==
    /\ kcall[t].pc = "apply"
    /\ LET r == ApplyMask(kcfg, kcall[t].x, kcall[t].mask, kcall[t].tok)
       IN kcall' = [kcall EXCEPT ![t] =
                      [@ EXCEPT !.pc = IF IsErr(r) THEN "error" ELSE "done", !.out = r]]
    /\ UNCHANGED <<kcfg, kpretrained, ktoken, kgrad, ksync, korder>>
    /\ UNCHANGED notMask

MaskNext ==
    \/ InitWeights
    \/ \E t \in Procs : MaskEnter(t)
    \/ \E t \in Procs : MaskWriteToken(t)
    \/ \E t \in Procs : MaskReadToken(t)
    \/ \E t \in Procs : MaskApply(t)

\* a MIMResNet module: init_weights, then forward_mask calls
SpecMask == MaskInit /\ [][MaskNext]_vars

\* =====================================================================
\* Building a backbone (ResNet.__init__, MIMResNet.__init__) and switching
\* it between training and evaluation (ResNet.train).  A module is held as
\* its parameter flags and mode flags per unit: the stem (the deep stem, or
\* conv1 with norm1) and the four stages.
\* =====================================================================
\* depth -> residual block class
arch_settings == [d \in {18, 34} |-> "BasicBlock"] @@ [d \in {50, 101, 152, 200, 269} |-> "Bottleneck"]

get_expansion(block) == IF block = "BasicBlock" THEN 1 ELSE 4

stem_channels == 64

base_channels == 64

\* the channel counts MIMResNet tabulates per depth
ARCH_DIMS == [d \in {18, 34} |-> <<64, 128, 256, 512>>] @@ [d \in {50, 101, 152, 200} |-> <<64, 256, 512, 1024>>]

\* out_channels of stage i: base_channels * expansion, doubled per stage
RECURSIVE StageOutChannels(_, _)
StageOutChannels(depth, i) ==
    IF i = 1 THEN base_channels * get_expansion(arch_settings[depth])
    ELSE 2 * StageOutChannels(depth, i - 1)

\* channels of the x that MIMResNet.forward hands to forward_mask at loop
\* index layer: the stem's output before stage 1, else stage layer's output
FeatureChannels(depth, layer) ==
    IF layer = 0 THEN stem_channels ELSE StageOutChannels(depth, layer)

Units == {"stem"} \cup {LayerName(j) : j \in 1..NumStages}

\* the units _freeze_stages walks over
FrozenUnits(frozen_stages) ==
    (IF frozen_stages >= 0 THEN {"stem"} ELSE {}) \cup {LayerName(j) : j \in 1..frozen_stages}

\* _freeze_stages: requires_grad = False on the walked units, nothing else
FreezeStages(frozen_stages, grad) ==
    [u \in Units |-> IF u \in FrozenUnits(frozen_stages) THEN FALSE ELSE grad[u]]

\* the mode check let through for any value
ModeSupportedAny(mode) == TRUE

\* `assert self.mask_mode in [None, 'randn', 'zero', 'mean', 'instance_mean', 'learnable']`
ModeSupported(mode) == mode \in MaskModes

\* ResNet.__init__: a module starts in training mode with every parameter
\* trainable, then _freeze_stages runs
ResNetInit(a) ==
    IF a.depth \notin DOMAIN arch_settings THEN Err("KeyError: invalid depth")
    ELSE [requires_grad |-> FreezeStages(a.frozen_stages, [u \in Units |-> TRUE]),
          training |-> [u \in Units |-> TRUE],
          norm_training |-> [u \in Units |-> TRUE]]

\* MIMResNet.__init__: the base constructor, the two assertions, the table
\* lookup, the token and the gamma
MIMResNetInit(a) ==
    LET base == ResNetInit(a)
    IN IF IsErr(base) THEN base
       ELSE IF a.mask_layer \notin 0..3 THEN Err("AssertionError: mask_layer")
       ELSE IF ~ModeSupported(a.mask_token) THEN Err("AssertionError: mask_mode")
       ELSE IF a.depth \notin DOMAIN ARCH_DIMS THEN Err("KeyError: ARCH_DIMS")
       ELSE [requires_grad |-> base.requires_grad,
             training |-> base.training,
             norm_training |-> base.norm_training,
             mask_mode |-> a.mask_token,
             mask_dims |-> ARCH_DIMS[a.depth][a.mask_layer + 1],
             has_token |-> HasTokenParameter(a.mask_token),
             has_gamma |-> a.mask_init > 0 /\ ~a.replace]

\* depths a caller may ask for: the keys of arch_settings and one other
TriedDepths == DOMAIN arch_settings \cup {20}

UnsupportedModes == {"gaussian"}

BuildArgs ==
    [cls : {"ResNet"}, depth : TriedDepths, frozen_stages : (0 - 1)..NumStages,
     norm_eval : BOOLEAN, mask_layer : {0}, mask_token : {"learnable"},
     replace : {TRUE}, mask_init : {0}]
    \cup [cls : {"MIMResNet"}, depth : TriedDepths, frozen_stages : (0 - 1)..NumStages,
          norm_eval : BOOLEAN, mask_layer : 0..NumStages,
          mask_token : MaskModes \cup UnsupportedModes,
          replace : BOOLEAN, mask_init : {0, MaxGamma}]

BuildInit ==
    /\ MixIdle /\ FwdIdle /\ ShufIdle /\ MaskIdle
    /\ bargs \in BuildArgs
    /\ bpc = "new"
    /\ bmod = <<>>

\* the constructor call
Construct ==
    /\ bpc = "new"
    /\ LET m == IF bargs.cls = "MIMResNet" THEN MIMResNetInit(bargs) ELSE ResNetInit(bargs)
       IN /\ bmod' = m
          /\ bpc' = IF IsErr(m) THEN "error" ELSE "built"
    /\ UNCHANGED bargs
    /\ UNCHANGED notBuild

\* train(mode): nn.Module.train sets the mode of every submodule, then
\* _freeze_stages, then the norm layers go to eval under norm_eval
Train ==
    /\ bpc = "built"
    /\ \E mode \in BOOLEAN :
          bmod' = [bmod EXCEPT
                     !.training = [u \in Units |-> mode],
                     !.requires_grad = FreezeStages(bargs.frozen_stages, @),
                     !.norm_training = [u \in Units |-> IF mode /\ bargs.norm_eval THEN FALSE ELSE mode]]
    /\ UNCHANGED <<bargs, bpc>>
    /\ UNCHANGED notBuild

BuildNext == Construct \/ Train

SpecBuild == BuildInit /\ [][BuildNext]_vars

\* =====================================================================
\* Properties of one _feature_mixup call (SpecMix)
\* =====================================================================
MixDone == mpc = "done"

LocalMode == ~margs.cfg.dist_shuffle /\ ~margs.cfg.cross_view /\ ~margs.cfg.BN_shuffle

MaskChannels == margs.mask.shape[2]

\* the mask is 4-dimensional with one or two channels and x's batch, height, width
MaskMatchesX ==
    /\ Rank(margs.mask) = 4
    /\ MaskChannels \in {1, 2}
    /\ margs.mask.shape[1] = margs.x.shape[1]
    /\ margs.mask.shape[3] = margs.x.shape[3]
    /\ margs.mask.shape[4] = margs.x.shape[4]

IdxIsPermutation ==
    /\ margs.cfg.idx_shuffle_mix # NoneVal
    /\ Get(margs.cfg.idx_shuffle_mix) \in Perms(margs.x.shape[1])

\* the weights of x and of x_ at sample b, position (h, w), read off the mask
Weight0(b, h, w) == margs.mask.val[<<b, 1, h, w>>]

Weight1(b, h, w) ==
    IF MaskChannels = 1 THEN MaskDenom - margs.mask.val[<<b, 1, h, w>>]
    ELSE margs.mask.val[<<b, 2, h, w>>]

\* C1: in local, non-cross-view mode without BN_shuffle the call returns
\* x*mask0 + x[idx_shuffle_mix]*mask1 element-wise, mask1 = 1 - mask for a
\* one-channel mask and channel 1 taken literally for a two-channel mask; a
\* mask of all 0.5 with the batch-reversing permutation gives the average of
\* x and its batch-reversed copy.
C1_MixIsWeightedSum ==
    (MixDone /\ LocalMode /\ MaskMatchesX /\ IdxIsPermutation) =>
        LET p == Get(margs.cfg.idx_shuffle_mix)
            x == margs.x
        IN /\ mres.ok
           /\ mres.mix.shape = x.shape
           /\ \A i \in Indices(x.shape) :
                 mres.mix.val[i] =
                     x.val[i] * Weight0(i[1], i[3], i[4])
                     + x.val[<<p[i[1]], i[2], i[3], i[4]>>] * Weight1(i[1], i[3], i[4])
           /\ ((MaskChannels = 1 /\ p = Reversed(x.shape[1])
                 /\ \A j \in Indices(margs.mask.shape) : 2 * margs.mask.val[j] = MaskDenom)
                => \A i \in Indices(x.shape) :
                      2 * mres.mix.val[i] =
                          MaskDenom * (x.val[i]
                                       + x.val[<<x.shape[1] + 1 - i[1], i[2], i[3], i[4]>>]))

\* a two-channel mask whose channels do not sum to 1, rows swapped
C1_Witness ==
    /\ MixDone /\ LocalMode /\ MaskMatchesX /\ IdxIsPermutation
    /\ mres.ok
    /\ MaskChannels = 2
    /\ margs.x.shape[1] = 2
    /\ Get(margs.cfg.idx_shuffle_mix) = <<2, 1>>
    /\ \E j \in Indices(margs.x.shape) :
          /\ Weight0(j[1], j[3], j[4]) + Weight1(j[1], j[3], j[4]) # MaskDenom
          /\ Weight1(j[1], j[3], j[4]) # 0
          /\ margs.x.val[j] # margs.x.val[<<3 - j[1], j[2], j[3], j[4]>>]

\* rows of the primary branch: all of x, or its first half in cross-view mode
PrimaryRows ==
    IF margs.cfg.cross_view THEN margs.x.shape[1] \div 2 ELSE margs.x.shape[1]

IsPermOf(o, n) == o # NoneVal /\ Get(o) \in Perms(n)

\* the mask matches the primary branch and every index the mode reads is a
\* permutation of the rows it is applied to
WellShapedCall ==
    LET B == margs.x.shape[1]
        c == margs.cfg
    IN /\ Rank(margs.mask) = 4
       /\ margs.mask.shape[1] = PrimaryRows
       /\ margs.mask.shape[3] = margs.x.shape[3]
       /\ (c.cross_view => B = 2 * PrimaryRows)
       /\ (c.BN_shuffle => IsPermOf(c.idx_unshuffle_BN, B)
                            /\ IsPermOf(c.idx_shuffle_BN, PrimaryRows))
       /\ (~c.cross_view => IsPermOf(c.idx_shuffle_mix, B))
       /\ (c.cross_view /\ c.dist_shuffle => IsPermOf(c.idx_shuffle_mix, B - PrimaryRows))

\* C3 as stated: every accepted call returns a feature map of exactly the
\* shape of the x passed in, cross-view mode and BN_shuffle included (taken
\* on the calls whose mask and indices are well shaped, where no other
\* defect of the call interferes).
C3_SameShapeAsInput ==
    (MixDone /\ mres.ok /\ WellShapedCall) => mres.mix.shape = margs.x.shape

\* C3 amended: with a mask matching the primary branch and permutation
\* indices, the result has x's channels, height and width; its batch size is
\* x's when cross_view is off and N, half of the 2N rows passed in, when
\* cross_view is on.
C3_ShapeLaw ==
    (MixDone /\ mres.ok /\ WellShapedCall) =>
        mres.mix.shape = <<PrimaryRows, margs.x.shape[2], margs.x.shape[3], margs.x.shape[4]>>

\* a cross-view call with BN_shuffle that returns N rows for 2N rows passed in
C3_Witness ==
    /\ MixDone /\ mres.ok /\ WellShapedCall
    /\ margs.cfg.cross_view /\ margs.cfg.BN_shuffle
    /\ margs.x.shape[1] = 2
    /\ mres.mix.shape[1] = 1

\* C8: a mask that is not 4-dimensional, or whose channel count is not 1 or
\* 2 (0 channels included), is rejected: the call produces no result.
C8_BadMaskRejected ==
    (MixDone /\ (Rank(margs.mask) # 4 \/ MaskChannels \notin {1, 2})) => ~mres.ok

\* a 4-dimensional mask with no channel passes the assertion and is rejected
\* when channel 0 is indexed
C8_Witness ==
    /\ MixDone
    /\ Rank(margs.mask) = 4 /\ MaskChannels = 0
    /\ ~mres.ok /\ mres.err = "IndexError"

\* C9 as stated: a mask whose height or width differs from the feature map's
\* is rejected, never broadcast (taken on local permutation mixing with a
\* permutation index).
C9_SpatialMismatchRejected ==
    (MixDone /\ LocalMode /\ IdxIsPermutation
       /\ Rank(margs.mask) = 4 /\ MaskChannels \in {1, 2}
       /\ (margs.mask.shape[3] # margs.x.shape[3] \/ margs.mask.shape[4] # margs.x.shape[4]))
    => ~mres.ok

\* C10 as stated: a call that requests shuffling and lacks an index it needs
\* is rejected: dist_shuffle without idx_shuffle_mix, BN_shuffle without
\* idx_shuffle_BN or idx_unshuffle_BN, local permutation mixing without
\* idx_shuffle_mix.
C10_MissingIndexRejected ==
    LET c == margs.cfg
    IN (MixDone
         /\ \/ c.dist_shuffle /\ c.idx_shuffle_mix = NoneVal
            \/ c.BN_shuffle /\ (c.idx_shuffle_BN = NoneVal \/ c.idx_unshuffle_BN = NoneVal)
            \/ ~c.dist_shuffle /\ ~c.cross_view /\ c.idx_shuffle_mix = NoneVal)
       => ~mres.ok

\* C11: with a one-channel mask of x's shape and the identity permutation
\* (x_ = x) the call returns x unchanged: x*m1 + x*(1 - m1) = x at every
\* element (the result is held as MaskDenom times its value).
C11_IdentityMix ==
    (MixDone /\ LocalMode /\ MaskMatchesX /\ MaskChannels = 1
       /\ margs.cfg.idx_shuffle_mix = Some(Identity(margs.x.shape[1])))
    => /\ mres.ok
       /\ mres.mix.shape = margs.x.shape
       /\ \A i \in Indices(margs.x.shape) : mres.mix.val[i] = MaskDenom * margs.x.val[i]

\* a two-sample identity mix under a mask that is neither 0 nor 1 somewhere
C11_Witness ==
    /\ MixDone /\ LocalMode /\ MaskMatchesX /\ MaskChannels = 1
    /\ margs.cfg.idx_shuffle_mix = Some(Identity(margs.x.shape[1]))
    /\ margs.x.shape[1] = 2
    /\ mres.ok
    /\ \E j \in Indices(margs.mask.shape) : margs.mask.val[j] \notin {0, MaskDenom}

\* C26: in cross-view mode, with or without dist_shuffle, rows 0..N-1 of the
\* 2N-row input form the primary branch and rows N..2N-1 form x_, and in
\* every mixing event exactly one of the two branches is detached: x_ when
\* the draw is below 0.5, the primary branch otherwise.
C26_CrossViewSplitAndDetach ==
    (MixDone /\ margs.cfg.cross_view /\ WellShapedCall /\ mres.ok) =>
        LET c == margs.cfg
            N == PrimaryRows
            x1 == IF c.BN_shuffle THEN BatchUnshuffle(margs.x, Get(c.idx_unshuffle_BN)) ELSE margs.x
            p == IF c.dist_shuffle THEN Get(c.idx_shuffle_mix) ELSE Identity(N)
            q == IF c.BN_shuffle THEN Get(c.idx_shuffle_BN) ELSE Identity(N)
        IN /\ mres.x_Detached = c.lt
           /\ mres.xDetached = ~c.lt
           /\ mres.xDetached # mres.x_Detached
           /\ mres.mix.shape[1] = N
           /\ \A i \in Indices(mres.mix.shape) :
                 LET b == q[i[1]]
                 IN mres.mix.val[i] =
                      x1.val[<<b, i[2], i[3], i[4]>>] * Weight0(b, i[3], i[4])
                      + x1.val[<<N + p[b], i[2], i[3], i[4]>>] * Weight1(b, i[3], i[4])

\* a cross-view call on two rows with dist_shuffle, the draw below 0.5 and a
\* mask that takes from both branches
C26_Witness ==
    /\ MixDone /\ margs.cfg.cross_view /\ WellShapedCall /\ mres.ok
    /\ margs.cfg.dist_shuffle /\ margs.cfg.lt
    /\ margs.x.shape[1] = 2
    /\ mres.x_Detached /\ ~mres.xDetached
    /\ \E h \in 1..margs.x.shape[3], w \in 1..margs.x.shape[4] :
          Weight0(1, h, w) > 0 /\ Weight1(1, h, w) > 0

\* =====================================================================
\* Properties of the shuffle round trip (SpecShuf)
\* =====================================================================
\* C12: shuffling a batch by any permutation and unshuffling it by the
\* matching inverse gives the batch back, for every batch size; so with
\* BN_shuffle and mix layer 0 the tensor the mix is computed from is the
\* input batch in its original order.
C12_RoundTrip ==
    /\ (spc = "unshuffled" => sx = sx0)
    /\ (spc = "shuffled" =>
          \A i \in Indices(sx0.shape) :
             sx.val[<<Get(sidx)[i[1]]>> \o Tail(i)] = sx0.val[i])

\* a three-row batch restored after a permutation that is not its own inverse
C12_Witness ==
    /\ spc = "unshuffled"
    /\ sx0.shape[1] = 3
    /\ ArgSort(Get(sidx)) # Get(sidx)
    /\ sx = sx0

\* =====================================================================
\* Properties of a MIMResNet module (SpecMask)
\* =====================================================================
\* the mask value pass t applies at index i of its feature map
MaskAt(t, i) == Get(kcall[t].mask).val[<<i[1], i[3], i[4]>>]

MaskGiven(t) == kcall[t].mask # NoneVal

\* pass t has run forward_mask to its end, with a result or an error
Called(t) == Finished(t)

\* C13: with replace and a token-parameter mode (zero, learnable, randn,
\* mean) a call with a mask returns x*(1 - mask) + token*mask: the token at
\* every position where mask = 1, whatever x is there, and x at every
\* position where mask = 0; so an all-ones mask gives the token broadcast to
\* x's shape and an all-zeros mask gives x.  Outside mean mode the token is
\* the stored parameter.
C13_ReplaceIsSubstitution ==
    \A t \in Procs :
       (Called(t) /\ kcfg.replace /\ HasTokenParameter(kcfg.mask_mode) /\ MaskGiven(t))
       => /\ kcall[t].pc = "done"
          /\ kcall[t].out.shape = kcall[t].x.shape
          /\ \A i \in Indices(kcall[t].x.shape) :
                /\ MaskAt(t, i) = 1 => kcall[t].out.val[i] = kcall[t].tok.val[i]
                /\ MaskAt(t, i) = 0 => kcall[t].out.val[i] = kcall[t].x.val[i]
                /\ ~WritesToken(kcfg.mask_mode)
                      => kcall[t].tok.val[i] = Get(ktoken).val[<<1, i[2], 1, 1>>]

\* a learnable token substituted at the masked positions of a checker mask
C13_Witness ==
    /\ kcall[1].pc = "done"
    /\ kcfg.replace /\ kcfg.mask_mode = "learnable"
    /\ MaskGiven(1)
    /\ kcall[1].x.shape[1] = 2
    /\ \E i, j \in Indices(kcall[1].x.shape) :
          /\ MaskAt(1, i) = 1 /\ MaskAt(1, j) = 0
          /\ kcall[1].out.val[i] = Get(ktoken).val[<<1, i[2], 1, 1>>]
          /\ kcall[1].out.val[i] # kcall[1].x.val[i]
          /\ kcall[1].out.val[j] = kcall[1].x.val[j]

RECURSIVE SumFn(_, _)
SumFn(f, n) == IF n = 0 THEN 0 ELSE f[n] + SumFn(f, n - 1)

\* the sum of x[b, c, :, :]
SampleSum(x, b, c) ==
    LET W == x.shape[4]
        n == x.shape[3] * W
    IN SumFn([k \in 1..n |-> x.val[<<b, c, ((k - 1) \div W) + 1, ((k - 1) % W) + 1>>]], n)

\* the sum of x[:, c, :, :]
ChannelSum(x, c) == SumFn([b \in 1..x.shape[1] |-> SampleSum(x, b, c)], x.shape[1])

Numel(x) == x.shape[1] * x.shape[3] * x.shape[4]

\* tok, of any shape broadcast from (1, C, 1, 1), holds in every channel c
\* the mean of x[:, c, :, :]
IsChannelMeanOf(tok, x) ==
    \A c \in 1..x.shape[2] :
       LET sum == ChannelSum(x, c)
       IN \A i \in Indices(tok.shape) : i[2] = c => tok.val[i] * Numel(x) = sum

\* pass t has executed the token write of forward_mask
PastWrite(t) == kcall[t].pc \in {"read", "apply", "done", "error"}

\* C14: in mean mode, with the calls one after another, every forward_mask
\* call (one that is then rejected for its missing mask included) overwrites
\* the stored token with the channel-wise mean of its own x before the mask
\* is applied: once the most recent call is past its write the stored token
\* is the channel mean of that call's x, and the token a call injects is the
\* channel mean of that same call's x.
C14_MeanTokenTracksLastCall ==
    (ksync /\ kcfg.mask_mode = "mean" /\ korder # <<>>) =>
        /\ PastWrite(Last(korder)) =>
              /\ ktoken # NoneVal
              /\ Get(ktoken).shape = TokenShape
              /\ IsChannelMeanOf(Get(ktoken), kcall[Last(korder)].x)
        /\ \A t \in Procs :
              kcall[t].pc \in {"apply", "done"} => IsChannelMeanOf(kcall[t].tok, kcall[t].x)

\* two calls in a row on batches with different means: the token is the
\* second batch's mean, and the second call injected it
C14_Witness ==
    /\ ksync /\ kcfg.mask_mode = "mean" /\ kcfg.replace
    /\ korder = <<1, 2>>
    /\ kcall[1].pc = "done" /\ kcall[2].pc = "done"
    /\ MaskGiven(2)
    /\ IsChannelMeanOf(Get(ktoken), kcall[2].x)
    /\ ~IsChannelMeanOf(Get(ktoken), kcall[1].x)
    /\ \E i \in Indices(kcall[2].x.shape) :
          /\ MaskAt(2, i) = 1
          /\ kcall[2].out.val[i] = Get(ktoken).val[<<1, i[2], 1, 1>>]
          /\ kcall[2].out.val[i] # kcall[2].x.val[i]

HoldsToken(t) == kcall[t].pc \in {"apply", "done"}

\* C15: in mean mode a pass holds a token that is not the mean of its own
\* batch only when two passes run on the instance without synchronisation,
\* and the token is then the mean of the other pass's batch, whose token
\* write fell between this pass's write and its read; with the calls
\* serialised no pass ever holds a foreign token.
C15_ForeignTokenNeedsRace ==
    \A t \in Procs :
       (kcfg.mask_mode = "mean" /\ HoldsToken(t) /\ ~IsChannelMeanOf(kcall[t].tok, kcall[t].x)) =>
           /\ ~ksync
           /\ \E u \in Procs \ {t} :
                 PastWrite(u) /\ IsChannelMeanOf(kcall[t].tok, kcall[u].x)

\* unsynchronised passes: pass 1 has injected the mean of pass 2's batch
C15_Witness ==
    /\ ~ksync /\ kcfg.mask_mode = "mean"
    /\ kcall[1].pc = "done" /\ MaskGiven(1)
    /\ PastWrite(2)
    /\ ~IsChannelMeanOf(kcall[1].tok, kcall[1].x)
    /\ \E i \in Indices(kcall[1].x.shape) :
          /\ MaskAt(1, i) = 1
          /\ kcall[1].out.val[i] = kcall[1].tok.val[i]
          /\ kcall[1].out.val[i] * Numel(kcall[2].x) = ChannelSum(kcall[2].x, i[2])

Initialised == kpretrained \in {"None", "checkpoint"}

\* C16 as stated: after init_weights(pretrained), whatever pretrained is,
\* the mask token accepts gradient updates exactly when the mode is
\* learnable; in modes zero, randn and mean it is marked non-trainable.
C16_TrainableIffLearnable ==
    (Initialised /\ HasTokenParameter(kcfg.mask_mode)) =>
        (kgrad <=> kcfg.mask_mode = "learnable")

C18_NoneModeIsNoop ==
    kcfg.mask_mode = "None" =>
        /\ ktoken = NoneVal
        /\ kgrad = FALSE
        /\ \A t \in Procs :
              kcall[t].pc # "idle" => (kcall[t].pc = "done" /\ kcall[t].out = kcall[t].x)

\* a none-mode call without a mask that returned its x
C18_Witness ==
    /\ kcfg.mask_mode = "None"
    /\ kcall[1].pc = "done"
    /\ ~MaskGiven(1)
    /\ kcall[1].out = kcall[1].x
    /\ kcall[1].x.shape[1] = 2

AllOnes(t) == MaskGiven(t) /\ \A j \in Indices(Get(kcall[t].mask).shape) : Get(kcall[t].mask).val[j] = 1

\* C19: in instance_mean mode with replace and an all-ones mask the result
\* holds, at every position of sample b and channel c, the spatial mean of
\* x[b, c, :, :]; the module has no stored token, read or written.
C19_InstanceMeanInjected ==
    kcfg.mask_mode = "instance_mean" =>
        /\ ktoken = NoneVal
        /\ \A t \in Procs :
              (Finished(t) /\ kcfg.replace /\ AllOnes(t)) =>
                 /\ kcall[t].pc = "done"
                 /\ kcall[t].out.shape = kcall[t].x.shape
                 /\ \A b \in 1..kcall[t].x.shape[1], c \in 1..kcall[t].x.shape[2] :
                       LET sum == SampleSum(kcall[t].x, b, c)
                       IN \A h \in 1..kcall[t].x.shape[3], w \in 1..kcall[t].x.shape[4] :
                             kcall[t].out.val[<<b, c, h, w>>]
                                * (kcall[t].x.shape[3] * kcall[t].x.shape[4]) = sum

\* two samples of more than one position each, so that the two samples'
\* means differ from each other and from the values they replace
C19_Witness ==
    /\ kcfg.mask_mode = "instance_mean" /\ kcfg.replace
    /\ kcall[1].pc = "done" /\ AllOnes(1)
    /\ kcall[1].x.shape[1] = 2 /\ kcall[1].x.shape[3] = 2
    /\ kcall[1].out.val[<<1, 1, 1, 1>>] # kcall[1].out.val[<<2, 1, 1, 1>>]
    /\ kcall[1].out.val[<<1, 1, 1, 1>>] # kcall[1].x.val[<<1, 1, 1, 1>>]

\* the coefficient of the original value at masked positions
GammaAt(c) == IF MaskGamma(kcfg) = NoneVal THEN 1 ELSE Get(MaskGamma(kcfg)).val[<<1, c, 1, 1>>]

\* C20: without replace forward_mask is additive: every position where
\* mask = 0 keeps x, every position where mask = 1 holds the original value,
\* times mask_gamma when that coefficient exists and whether or not detach
\* is set, plus the token; without mask_gamma the result is x + token*mask.
C20_ResidualIsAdditive ==
    \A t \in Procs :
       (Finished(t) /\ ~kcfg.replace /\ kcfg.mask_mode # "None" /\ MaskGiven(t)) =>
           /\ kcall[t].pc = "done"
           /\ kcall[t].out.shape = kcall[t].x.shape
           /\ \A i \in Indices(kcall[t].x.shape) :
                 /\ MaskAt(t, i) = 0 => kcall[t].out.val[i] = kcall[t].x.val[i]
                 /\ MaskAt(t, i) = 1 =>
                       kcall[t].out.val[i] = kcall[t].x.val[i] * GammaAt(i[2]) + kcall[t].tok.val[i]
                 /\ MaskGamma(kcfg) = NoneVal =>
                       kcall[t].out.val[i] = kcall[t].x.val[i] + kcall[t].tok.val[i] * MaskAt(t, i)

\* a residual call with detach and mask_gamma under a checker mask
C20_Witness ==
    /\ ~kcfg.replace /\ kcfg.detach /\ MaskGamma(kcfg) # NoneVal
    /\ kcfg.mask_mode = "learnable"
    /\ kcall[1].pc = "done" /\ MaskGiven(1)
    /\ \E i, j \in Indices(kcall[1].x.shape) :
          /\ MaskAt(1, i) = 1 /\ MaskAt(1, j) = 0
          /\ kcall[1].out.val[i] = kcall[1].x.val[i] * MaxGamma + kcall[1].tok.val[i]
          /\ kcall[1].out.val[i] # kcall[1].x.val[i] + kcall[1].tok.val[i]
          /\ kcall[1].tok.val[i] # 0

\* C27: a forward_mask call rejected for its missing mask leaves the module
\* as it found it, in every mode: when the most recent call was rejected
\* this way, the stored mask token is the one stored when the call began.
C27_RejectedCallKeepsToken ==
    (ksync /\ korder # <<>>) =>
        LET t == Last(korder)
        IN (kcall[t].pc = "error" /\ ~MaskGiven(t)) => ktoken = kcall[t].stored

\* =====================================================================
\* Properties of building and training a backbone (SpecBuild)
\* =====================================================================
\* C21: a MIMResNet constructor call whose mask-token mode is outside None,
\* randn, zero, mean, instance_mean, learnable ends in an error, and every
\* MIMResNet that was built carries one of these modes.
C21_UnsupportedModeRejected ==
    (bargs.cls = "MIMResNet" /\ bpc # "new") =>
        /\ bargs.mask_token \notin MaskModes => bpc = "error" /\ IsErr(bmod)
        /\ bpc = "built" => bmod.mask_mode \in MaskModes

\* a call with a valid depth and mask_layer that the mode assertion rejected
C21_Witness ==
    /\ bargs.cls = "MIMResNet" /\ bargs.mask_token \in UnsupportedModes
    /\ bargs.depth \in DOMAIN arch_settings /\ bargs.mask_layer \in 0..3
    /\ bpc = "error" /\ bmod = Err("AssertionError: mask_mode")

\* the stem and stages 1..f
DocumentedFrozen(f) == {u \in Units : f >= 0 /\ (u = "stem" \/ \E j \in 1..f : u = LayerName(j))}

\* C23: for frozen_stages = f >= 0, after construction and after any
\* sequence of train(mode) calls, every parameter of the stem and of stages
\* 1..f has requires_grad false and these modules are in eval mode; for
\* f = -1 every parameter stays trainable.
C23_FrozenStagesInEval ==
    bpc = "built" =>
        /\ \A u \in DocumentedFrozen(bargs.frozen_stages) :
              ~bmod.requires_grad[u] /\ ~bmod.training[u]
        /\ bargs.frozen_stages = 0 - 1 => \A u \in Units : bmod.requires_grad[u]

\* C24: for every depth of arch_settings and every mask_layer in 0..3 the
\* MIMResNet constructor succeeds, and mask_dims is the channel count of
\* the feature map forward_mask receives at that layer.
C24_MaskDimsMatchFeature ==
    (/\ bargs.cls = "MIMResNet" /\ bpc # "new"
     /\ bargs.depth \in DOMAIN arch_settings
     /\ bargs.mask_layer \in 0..3 /\ bargs.mask_token \in MaskModes) =>
        bpc = "built" /\ bmod.mask_dims = FeatureChannels(bargs.depth, bargs.mask_layer)

\* =====================================================================
\* Properties of one forward pass (SpecFwd)
\* =====================================================================
EvIdx(name) == {k \in 1..Len(flog) : flog[k].ev = name}

StageNames == {LayerName(j) : j \in 1..NumStages}

\* events at which normalization layers consume x: the stem and the stages
ConsumerIdx == {k \in 1..Len(flog) : flog[k].ev \in StageNames \cup {"stem"}}

\* a provenance without its batch permutations
IsPermutationOp(op) == op \in {"shuffle", "unshuffle", "reshuffle"}

Unpermuted(q) == SelectSeq(q, LAMBDA op : ~IsPermutationOp(op))

WithShuffleBN == fcfg.cls \in MixClasses /\ fcfg.mix.given /\ fcfg.mix.BN_shuffle

\* C2: with BN_shuffle the input is shuffled and the inverse permutation
\* recorded first; at the mix layer x is un-shuffled before x_ is derived
\* and before the combination; the mix is re-shuffled after the combination
\* and before the next stem or stage consumes it.
C2_ShuffleOrder ==
    WithShuffleBN =>
        /\ fpc # "start" =>
              flog # <<>> /\ flog[1].ev = "shuffle_input" /\ fidx_unshuffle = "recorded"
        /\ \A u \in EvIdx("unshuffle") : u > 1 /\ Last(flog[u].in) # "unshuffle"
        /\ \A d \in EvIdx("derive_x_") :
              (\E u \in EvIdx("unshuffle") : u < d) /\ Last(flog[d].in) = "unshuffle"
        /\ \A c \in EvIdx("combine") :
              /\ \E u \in EvIdx("unshuffle"), d \in EvIdx("derive_x_") : u < d /\ d < c
              /\ Last(flog[c].in) = "unshuffle"
        /\ \A r \in EvIdx("reshuffle") :
              (\E c \in EvIdx("combine") : c < r) /\ Last(flog[r].in) = "mix"
        /\ \A c \in EvIdx("combine") : \A s \in ConsumerIdx :
              s > c => \E r \in EvIdx("reshuffle") : c < r /\ r < s

\* a pass that mixed after stage 1 under BN_shuffle and ran stage 2 on the
\* re-shuffled mix
C2_Witness ==
    /\ WithShuffleBN
    /\ fpc = "returned"
    /\ fcfg.mix.layer = 1
    /\ \E r \in EvIdx("reshuffle"), s \in EvIdx(LayerName(2)) :
          r < s /\ Last(flog[s].in) = "reshuffle"

\* what the mix at a layer is applied to, and the first step that consumes it
MixProducer(layer) == IF layer = 0 THEN "input" ELSE LayerName(layer)

MixConsumer(layer) == IF layer = 0 THEN "stem" ELSE LayerName(layer + 1)

\* C4: a mix at layer 0 is applied to the raw input before the stem; a mix at
\* layer i >= 1 is applied to the output of stage i, and whenever stage i+1
\* runs its input is that mixed feature map.
C4_MixBetweenStages ==
    (fcfg.cls \in MixClasses /\ fcfg.mix.given) =>
        LET layer == fcfg.mix.layer
        IN /\ \A c \in EvIdx("combine") :
                 Last(Unpermuted(flog[c].in)) = MixProducer(layer)
           /\ \A k \in EvIdx(MixConsumer(layer)) :
                 LET q == Unpermuted(flog[k].in)
                 IN /\ Len(q) >= 2
                    /\ q[Len(q)] = "mix"
                    /\ q[Len(q) - 1] = MixProducer(layer)
                    /\ \E c \in EvIdx("combine") : c < k

\* a mix after stage 2 whose result stage 3 consumed
C4_Witness ==
    /\ fcfg.cls \in MixClasses /\ fcfg.mix.given
    /\ fcfg.mix.layer = 2
    /\ \E k \in EvIdx(LayerName(3)) : Last(flog[k].in) = "mix"

IsMIM == fcfg.cls = "MIMResNet"

\* C5 as stated: an injection at mask_layer 0 is applied to the raw input
\* before the stem runs; one at mask_layer i >= 1 is applied to the output of
\* stage i before stage i+1.
C5_MaskLayerAsStated ==
    (IsMIM /\ fcfg.mask_mode # "None" /\ fcfg.has_mask) =>
        \A m \in EvIdx("forward_mask") :
            /\ fcfg.mask_layer = 0 => flog[m].in = <<"input">> /\ EvIdx("stem") \subseteq (m + 1)..Len(flog)
            /\ fcfg.mask_layer >= 1 => Last(flog[m].in) = LayerName(fcfg.mask_layer)

\* C5 amended: an injection at mask_layer 0 is applied to the output of the
\* stem before stage 1 runs; one at mask_layer i >= 1 is applied to the
\* output of stage i before stage i+1; stage mask_layer+1 runs on the result.
C5_MaskAtStageInput ==
    IsMIM =>
        /\ \A m \in EvIdx("forward_mask") :
              /\ Last(flog[m].in) =
                    (IF fcfg.mask_layer = 0 THEN "stem" ELSE LayerName(fcfg.mask_layer))
              /\ EvIdx(LayerName(fcfg.mask_layer + 1)) \subseteq (m + 1)..Len(flog)
        /\ \A k \in EvIdx(LayerName(fcfg.mask_layer + 1)) :
              /\ \E m \in EvIdx("forward_mask") : m = k - 1
              /\ fcfg.mask_mode # "None" => Last(flog[k].in) = "mask_token"

\* mask_layer 0: the token was injected into the stem output and stage 1 ran
C5_Witness ==
    /\ IsMIM
    /\ fcfg.mask_layer = 0
    /\ \E m \in EvIdx("forward_mask"), k \in EvIdx(LayerName(1)) :
          /\ flog[m].in = <<"input", "stem">>
          /\ m < k
          /\ Last(flog[k].in) = "mask_token"

\* C6: a forward pass makes at most one _feature_mixup call and at most one
\* forward_mask call, whatever the layer and out_indices.
C6_AtMostOneEvent ==
    /\ Cardinality(EvIdx("_feature_mixup")) <= 1
    /\ Cardinality(EvIdx("forward_mask")) <= 1

\* a completed pass over all stages that mixed once, after stage 1
C6_Witness ==
    /\ fpc = "returned"
    /\ fcfg.mix.given /\ fcfg.mix.layer = 1
    /\ Cardinality(fcfg.out_indices) >= 2
    /\ Cardinality(EvIdx("_feature_mixup")) = 1
    /\ EvIdx(LayerName(NumStages)) # {}

\* C7 as stated: with exactly one index k in out_indices no stage with
\* (0-based) index greater than k is executed.
C7_SingleOutStopsEarly ==
    \A k \in fcfg.out_indices :
        fcfg.out_indices = {k} =>
            \A j \in 1..NumStages : j - 1 > k => EvIdx(LayerName(j)) = {}

\* C22: when out_indices names one stage the pass returns a single tensor,
\* the feature map itself and not a sequence holding it; when it names
\* several stages the pass returns a tuple with one tensor per named stage,
\* in increasing stage order.
C22_SingleTensorOrTuple ==
    fpc = "returned" =>
        LET r == Get(fvalue)
        IN /\ Cardinality(fcfg.out_indices) = 1 => r.kind = "tensor"
           /\ Cardinality(fcfg.out_indices) > 1 =>
                 /\ r.kind = "tuple"
                 /\ Len(r.items) = Cardinality(fcfg.out_indices)
                 /\ \A a, b \in 1..Len(r.items) : a < b => Len(r.items[a]) < Len(r.items[b])

\* C25: in every pass that shuffled its input because BN_shuffle is set,
\* whatever the mix layer and out_indices (a single out index with its early
\* return included), the un-shuffle with the recorded inverse permutation
\* has run exactly once when the pass returns.
C25_UnshuffledOnceBeforeReturn ==
    (WithShuffleBN /\ EvIdx("shuffle_input") # {} /\ fpc = "returned") =>
        /\ Cardinality(EvIdx("unshuffle")) = 1
        /\ \A u \in EvIdx("unshuffle") : \A h \in EvIdx("shuffle_input") : h < u

====
